---------------------------- MODULE Spec2Model ----------------------------
(***************************************************************************)
(* The error log of the CLI (package errors): recorders append entries to  *)
(* the process-wide store Log under logMutex, and at exit the host calls   *)
(* Persist, which forwards entries to the telemetry backend (instrument)   *)
(* and writes them to the audit log file, truncating the file first when   *)
(* it has reached FileRotationSize.                                        *)
(*                                                                         *)
(* Text is a sequence of one-character strings.  Map keys and the string   *)
(* values held in a context are TLA+ strings.                              *)
(***************************************************************************)
EXTENDS Integers, Sequences, FiniteSets, TLC

\* ------------------------------------------------------------------ bounds

\* Pieces a string given to FilterToken is put together from.
MaxPieces == 4

\* Recording calls (Add, AddWithContext) started in one run.
MaxCalls == 2

\* Calls of the log's operations (Add, AddWithContext, Persist) in one run.
MaxOps == 3

\* Ticks of the clock told apart in one run.
MaxClock == 1

\* ------------------------------------------------------------------- text

RECURSIVE Digits(_)
\* strconv of a non-negative integer: its decimal digits.
Digits(n) ==
    LET d == <<"0", "1", "2", "3", "4", "5", "6", "7", "8", "9">>
    IN  IF n < 10 THEN <<d[n + 1]>> ELSE Digits(n \div 10) \o <<d[(n % 10) + 1]>>

\* Whether sub occurs in s at 1-based position p.
MatchAt(s, sub, p) ==
    /\ p + Len(sub) - 1 <= Len(s)
    /\ \A k \in 1..Len(sub) : s[p + k - 1] = sub[k]

\* strings.Index: the 0-based position of the first sub in s, or -1.
Index(s, sub) ==
    LET hits == {p \in 1..(Len(s) + 1) : MatchAt(s, sub, p)}
    IN  IF hits = {} THEN -1
        ELSE (CHOOSE p \in hits : \A q \in hits : p <= q) - 1

\* filepath.Base of a slash-separated path without a trailing slash: what
\* follows the last separator.
Base(path) ==
    LET seps == {p \in 1..Len(path) : path[p] = "/"}
    IN  IF path = <<>> THEN <<".">>
        ELSE IF seps = {} THEN path
        ELSE SubSeq(path, (CHOOSE p \in seps : \A q \in seps : q <= p) + 1, Len(path))

\* strings.Split(s, sep)[0]: s up to the first sep, s itself without one.
SplitFirst(s, sep) ==
    IF Index(s, sep) = -1 THEN s ELSE SubSeq(s, 1, Index(s, sep))

RECURSIVE Join(_, _)
\* strings.Join.
Join(elems, sep) ==
    IF elems = <<>> THEN <<>>
    ELSE IF Len(elems) = 1 THEN elems[1]
    ELSE elems[1] \o sep \o Join(Tail(elems), sep)

\* ----------------------------------------------------------------- values

\* The context key of line 27.
AllowInstrumentation == "AllowInstrumentation"

\* A value of Go's type any, tagged with its dynamic type.
BoolV(b) == <<"bool", b>>
StringV(s) == <<"string", s>>
IntV(n) == <<"int", n>>

\* v.(bool) in its two-result form: the value and whether v is a bool; the
\* zero value false when it is not.
AssertBool(v) ==
    IF v[1] = "bool" THEN [val |-> v[2], ok |-> TRUE] ELSE [val |-> FALSE, ok |-> FALSE]

\* The nil error, and an error value: its message and the error it wraps.
NilErr == <<"nil">>
ErrorV(msg) == <<"error", msg, NilErr>>

\* A map[string]any: the nil map, or a map.
NilMap == [nil |-> TRUE, m |-> [k \in {} |-> BoolV(FALSE)]]
MapOf(f) == [nil |-> FALSE, m |-> f]
HasKey(ctx, k) == k \in DOMAIN ctx.m

\* ----------------------------------------------------------------- inputs

E1 == ErrorV(<<"E", "1">>)
E2 == ErrorV(<<"E", "2">>)

\* What runtime.Caller(2) may answer: nothing, a file under the project's
\* /pkg/ directory, a file elsewhere.
NoFrame == [ok |-> FALSE, file |-> <<>>, line |-> 0]
PkgFrame ==
    [ok |-> TRUE, line |-> 75,
     file |-> <<"/", "r", "/", "p", "k", "g", "/", "d", ".", "g", "o">>]
OtherFrame ==
    [ok |-> TRUE, line |-> 9, file |-> <<"/", "m", "/", "x", ".", "g", "o">>]

\* Contexts a caller may pass to AddWithContext.
CtxAllow == MapOf([k \in {AllowInstrumentation, "Service ID"} |->
                      IF k = AllowInstrumentation THEN BoolV(TRUE) ELSE StringV("abc")])
CtxDeny == MapOf([k \in {AllowInstrumentation} |-> BoolV(FALSE)])
CtxNoKey == MapOf([k \in {"Service ID", "Service Version"} |->
                      IF k = "Service ID" THEN StringV("abc") ELSE IntV(1)])
CtxString == MapOf([k \in {AllowInstrumentation} |-> StringV("true")])

\* The recording calls of a run: Add(err) and AddWithContext(err, ctx), each
\* with the frame runtime.Caller finds for it.
AddInputs ==
    { [err |-> E1, frame |-> PkgFrame],
      [err |-> NilErr, frame |-> NoFrame] }
AddWithContextInputs ==
    { [err |-> E1, ctx |-> CtxAllow, frame |-> PkgFrame],
      [err |-> E2, ctx |-> CtxDeny, frame |-> OtherFrame],
      [err |-> E2, ctx |-> CtxNoKey, frame |-> PkgFrame],
      [err |-> E1, ctx |-> CtxString, frame |-> PkgFrame],
      [err |-> E2, ctx |-> NilMap, frame |-> PkgFrame] }

\* Argument vectors of the process.
ArgVectors ==
    { << <<"l", "s">> >>,
      << <<"-", "-", "t", "o", "k", "e", "n">>, <<"a", "_", "1">> >> }


\* ------------------------------------------------------------------ state

\* The goroutines that record errors: the one that runs the command, and
\* one it started.
Main == "main"
Workers == {Main, "g1"}

\* logMutex when no goroutine holds it.
Free == "free"

VARIABLES
    Log,        \* the store *l of the package variable Log
    logMutex,   \* Free, or the worker holding the mutex
    pc,         \* each worker's position in Add or AddWithContext
    call,       \* each worker's current call: its operation and arguments
    le,         \* each worker's local entry
    sl,         \* each worker's read of *l inside append
    now,        \* the clock behind Now
    returned,   \* history: the arguments of the recording calls that returned
    started,    \* history: how many recording calls were started
    file,       \* the file at logPath
    handles,    \* how many handles on the file this process holds open
    sentry,     \* the events handed to the telemetry backend, in order
    ppc,        \* Persist's position
    pl,         \* Persist's receiver l, the copy of the store it was called on
    pargs,      \* Persist's args
    pidx,       \* Persist's position in the range over l
    result,     \* what the last Persist call returned
    ptrace,     \* history: the steps of the current or last Persist call
    pre,        \* history: file and sentry when that call was made
    npersist,   \* history: how many Persist calls were made
    argv,       \* the process's argument vector, which the host passes to Persist
    arg,        \* the argument a function of the package is applied to on its own
    ret,        \* what that application returned
    applied,    \* whether the function was applied
    mock        \* history: the calls made on a MockLog and what each returned

recorderVars == <<Log, logMutex, pc, call, le, sl, returned, started>>
persistVars == <<file, handles, sentry, ppc, pl, pargs, pidx, result, ptrace, pre, npersist>>
vars == <<Log, logMutex, pc, call, le, sl, now, returned, started,
          file, handles, sentry, ppc, pl, pargs, pidx, result, ptrace, pre, npersist,
          argv, arg, ret, applied, mock>>
otherVars == <<argv, arg, ret, applied, mock>>

\* ---------------------------------------------------------------- entries

NoCaller == [nil |-> TRUE, FILE |-> <<>>, LINE |-> 0]

\* The LogEntry zero value: what a worker's locals hold outside a call.
NoEntry == [Time |-> 0, Err |-> NilErr, Caller |-> NoCaller, Context |-> NilMap]
NoCall == [op |-> "none", err |-> NilErr, ctx |-> NilMap, frame |-> NoFrame]

\* A createLogEntry that leaves Err and Caller at their zero values.
createLogEntryZero(err, t, frame) ==
    [Time |-> t, Err |-> NilErr, Caller |-> NoCaller, Context |-> NilMap]

\* createLogEntry: Time from the clock, Err as given, Caller from the frame
\* runtime.Caller(2) answers, its file cut to start at "/pkg/" when present.
createLogEntry(err, t, frame) ==
    LET marker == <<"/", "p", "k", "g", "/">>
        found == Index(frame.file, marker)
        idx == IF found = -1 THEN 0 ELSE found
    IN  [Time |-> t,
         Err |-> err,
         Caller |-> IF frame.ok
                    THEN [nil |-> FALSE,
                          FILE |-> SubSeq(frame.file, idx + 1, Len(frame.file)),
                          LINE |-> frame.line]
                    ELSE NoCaller,
         Context |-> NilMap]

\* An append that puts the element in front.
appendInFront(s, e) == <<e>> \o s

\* The built-in append on one element.
append(s, e) == Append(s, e)

\* A Lock that never waits.
CanLockAlways == TRUE

\* logMutex.Lock() returns only when the mutex is free.
CanLock == logMutex = Free


\* -------------------------------------------------------------- recorders

\* No recording call runs while the host is inside Persist, and the host calls
\* Persist only between recording calls: Persist reads the store without the
\* mutex.
HostIdle == ppc = "idle"
RecordersIdle == \A w \in Workers : pc[w] = "idle"

\* A worker calls Add(err): it first asks for the mutex.
Add(w, in) ==
    /\ pc[w] = "idle"
    /\ HostIdle
    /\ started < MaxCalls
    /\ started + npersist < MaxOps
    /\ started' = started + 1
    /\ call' = [call EXCEPT ![w] =
                    [op |-> "Add", err |-> in.err, ctx |-> NilMap, frame |-> in.frame]]
    /\ pc' = [pc EXCEPT ![w] = "Lock"]
    /\ UNCHANGED <<Log, logMutex, le, sl, now, returned>>
    /\ UNCHANGED <<persistVars, otherVars>>

\* A worker calls AddWithContext(err, ctx): it builds the entry and sets its
\* Context, then asks for the mutex.
AddWithContext(w, in) ==
    /\ pc[w] = "idle"
    /\ HostIdle
    /\ started < MaxCalls
    /\ started + npersist < MaxOps
    /\ started' = started + 1
    /\ call' = [call EXCEPT ![w] =
                    [op |-> "AddWithContext", err |-> in.err, ctx |-> in.ctx,
                     frame |-> in.frame]]
    /\ le' = [le EXCEPT ![w] =
                  [createLogEntry(in.err, now, in.frame) EXCEPT !.Context = in.ctx]]
    /\ pc' = [pc EXCEPT ![w] = "Lock"]
    /\ UNCHANGED <<Log, logMutex, sl, now, returned>>
    /\ UNCHANGED <<persistVars, otherVars>>

\* logMutex.Lock().
Lock(w) ==
    /\ pc[w] = "Lock"
    /\ CanLock
    /\ logMutex' = w
    /\ pc' = [pc EXCEPT ![w] = IF call[w].op = "Add" THEN "create" ELSE "load"]
    /\ UNCHANGED <<Log, call, le, sl, now, returned, started>>
    /\ UNCHANGED <<persistVars, otherVars>>

\* Add evaluates createLogEntry(err), the argument of its append.
AddCreate(w) ==
    /\ pc[w] = "create"
    /\ le' = [le EXCEPT ![w] = createLogEntry(call[w].err, now, call[w].frame)]
    /\ pc' = [pc EXCEPT ![w] = "load"]
    /\ UNCHANGED <<Log, logMutex, call, sl, now, returned, started>>
    /\ UNCHANGED <<persistVars, otherVars>>

\* *l = append(*l, le), first half: the read of *l.
AppendLoad(w) ==
    /\ pc[w] = "load"
    /\ sl' = [sl EXCEPT ![w] = Log]
    /\ pc' = [pc EXCEPT ![w] = "store"]
    /\ UNCHANGED <<Log, logMutex, call, le, now, returned, started>>
    /\ UNCHANGED <<persistVars, otherVars>>

\* *l = append(*l, le), second half: the write of *l.
AppendStore(w) ==
    /\ pc[w] = "store"
    /\ Log' = append(sl[w], le[w])
    /\ pc' = [pc EXCEPT ![w] = "Unlock"]
    /\ UNCHANGED <<logMutex, call, le, sl, now, returned, started>>
    /\ UNCHANGED <<persistVars, otherVars>>

\* logMutex.Unlock(), and the call returns.
Unlock(w) ==
    /\ pc[w] = "Unlock"
    /\ logMutex' = Free
    /\ returned' = Append(returned, <<call[w].op, call[w].err, call[w].ctx>>)
    /\ pc' = [pc EXCEPT ![w] = "idle"]
    /\ call' = [call EXCEPT ![w] = NoCall]
    /\ le' = [le EXCEPT ![w] = NoEntry]
    /\ sl' = [sl EXCEPT ![w] = <<>>]
    /\ UNCHANGED <<Log, now, started>>
    /\ UNCHANGED <<persistVars, otherVars>>


\* -------------------------------------------------------------- telemetry

\* An event of the telemetry backend.  The last component names the entry of
\* l the event was made from (0: none); it is history, not payload.
Breadcrumb(category, type, message, data, timestamp, src) ==
    <<"breadcrumb", category, type, message, data, timestamp, src>>
Exception(err, src) == <<"exception", err, src>>

\* The loop's tests without the third: a false AllowInstrumentation passes.
SkippedWithoutDeny(entry) ==
    entry.Context.nil \/ ~HasKey(entry.Context, AllowInstrumentation)

\* The three tests at the head of instrument's loop: whether the entry is
\* skipped.
Skipped(entry) ==
    IF entry.Context.nil THEN TRUE
    ELSE IF ~HasKey(entry.Context, AllowInstrumentation) THEN TRUE
    ELSE LET allow == AssertBool(entry.Context.m[AllowInstrumentation])
         IN  allow.ok /\ ~allow.val

\* The breadcrumb instrument makes of an entry it does not skip.
EntryBreadcrumb(entry, src) ==
    LET fileName == IF entry.Caller.nil THEN <<>> ELSE entry.Caller.FILE
        line == IF entry.Caller.nil THEN 0 ELSE entry.Caller.LINE
        err == IF entry.Err # NilErr
               THEN entry.Err[2]
               ELSE <<"u", "n", "k", "n", "o", "w", "n">>
        message == err \o <<" ", "(", "f", "i", "l", "e", ":", " ">> \o fileName
                       \o <<",", " ", "l", "i", "n", "e", ":", " ">> \o Digits(line)
                       \o <<")">>
        category == IF fileName # <<>>
                    THEN SplitFirst(Base(fileName), <<".", "g", "o">>)
                    ELSE <<>>
    IN  Breadcrumb(category, "error", message, entry.Context, entry.Time, src)

RECURSIVE EntryBreadcrumbs(_, _)
\* The loop of instrument over l[from..]: one breadcrumb per entry not skipped.
EntryBreadcrumbs(l, from) ==
    IF from > Len(l) THEN <<>>
    ELSE (IF Skipped(l[from]) THEN <<>> ELSE <<EntryBreadcrumb(l[from], from)>>)
             \o EntryBreadcrumbs(l, from + 1)

\* An instrument that captures the first entry's error.
instrumentFirstEntry(l, cmd) ==
    [events |-> <<Breadcrumb(<<"i", "n", "p", "u", "t">>, "info", cmd, NilMap, 0, 0)>>
                    \o EntryBreadcrumbs(l, 1)
                    \o (IF l = <<>> THEN <<>> ELSE <<Exception(l[1].Err, 1)>>),
     panics |-> l = <<>>]

\* instrument(l, cmd): the events it hands to the backend, and whether it
\* panics: l[len(l)-1] is out of range on an empty l.
instrument(l, cmd) ==
    LET input == Breadcrumb(<<"i", "n", "p", "u", "t">>, "info", cmd, NilMap, 0, 0)
    IN  IF l = <<>>
        THEN [events |-> <<input>>, panics |-> TRUE]
        ELSE [events |-> <<input>> \o EntryBreadcrumbs(l, 1)
                             \o <<Exception(l[Len(l)].Err, Len(l))>>,
              panics |-> FALSE]

\* ------------------------------------------------------------------- file

\* The size at which the log file is truncated.
FileRotationSize == 5242880

\* The file at logPath: whether it exists, the bytes it held when the run
\* began (content the run does not look at), and what the run wrote after
\* them: <<"header", bytes, cmd>>, <<"record", bytes, entry>>,
\* <<"separator", bytes>> and, cut short by a failed write, <<"partial", bytes>>.
NoFile == [exists |-> FALSE, old |-> 0, written |-> <<>>]
EmptyFile == [exists |-> TRUE, old |-> 0, written |-> <<>>]
OldFile(n) == [exists |-> TRUE, old |-> n, written |-> <<>>]

RECURSIVE SumBytes(_)
SumBytes(chunks) ==
    IF chunks = <<>> THEN 0 ELSE chunks[1][2] + SumBytes(Tail(chunks))

\* fi.Size().
Size(f) == f.old + SumBytes(f.written)

\* A write that puts its bytes in front of what the file holds.
WriteInFront(f, chunk) == [f EXCEPT !.written = <<chunk>> \o @]

\* f.Write(b) that succeeds.
Write(f, chunk) == [f EXCEPT !.written = Append(@, chunk)]

\* f.Write(b) that fails after n of b's bytes.
WriteFailing(f, n) ==
    IF n = 0 THEN f ELSE [f EXCEPT !.written = Append(@, <<"partial", n>>)]

\* How much of a write of b bytes may reach the file when the write fails.
PartialBytes(b) == {0, b - 1}

\* An I/O error of the operating system, and fmt.Errorf("...: %w", err).
IOError(op) == ErrorV(<<op>>)
errMsg == "error accessing audit log file: "

\* An Errorf that hands the error on as it is.
ErrorfUnwrapped(prefix, err) == err

Errorf(prefix, err) == <<"error", <<prefix>> \o err[2], err>>

\* No Persist call returned yet, or one is running.
NoResult == <<"none">>


\* ---------------------------------------------------------------- Persist

\* cmd := "fastly " + strings.Join(args, " ").
CommandLine(args) == <<"f", "a", "s", "t", "l", "y", " ">> \o Join(args, <<" ">>)

\* The bytes of "\nCOMMAND:\n" + cmd + "\n\n".
HeaderBytes(cmd) == 10 + Len(cmd) + 2

\* The bytes fmt prints for a value.
ValueBytes(v) ==
    IF v[1] = "bool" THEN (IF v[2] THEN 4 ELSE 5)
    ELSE IF v[1] = "string" THEN Len(v[2])
    ELSE Len(Digits(v[2]))

RECURSIVE ContextBytes(_, _)
\* The bytes of the range over .Context, keys as given: "\n  k: v\n" each.
ContextBytes(m, keys) ==
    IF keys = {} THEN 0
    ELSE LET k == CHOOSE x \in keys : TRUE
         IN  6 + Len(k) + ValueBytes(m[k]) + ContextBytes(m, keys \ {k})

\* The bytes the record template renders for an entry: its fixed text, the
\* time, the error ("<nil>" for none), "\nk:\nv\n" for FILE and for LINE, and
\* the context's pairs.
RecordBytes(entry) ==
    23 + Len(Digits(entry.Time))
       + (IF entry.Err = NilErr THEN 5 ELSE Len(entry.Err[2]))
       + (IF entry.Caller.nil THEN 0
          ELSE (4 + 4 + Len(entry.Caller.FILE)) + (4 + 4 + Len(Digits(entry.Caller.LINE))))
       + ContextBytes(entry.Context.m, DOMAIN entry.Context.m)

\* The bytes of the separator line and the empty line after it.
SeparatorBytes == 30 + 2

\* f.Close(): the handle is released, whether or not Close reports an error.
Close(h) == h - 1

\* A return with no Close deferred.
DeferredCloseMissing(h) == h

\* defer f.Close(): what a return does to the handles once it is registered.
DeferredClose(h) == Close(h)

\* Persist's steps, for the history.
Step(name) == ptrace' = Append(ptrace, name)

\* A Persist that does not stop on an empty l.
NothingToDoNever(l) == FALSE

\* len(l) == 0.
NothingToDo(l) == Len(l) = 0

\* A rotation only above the rotation size.
AboveRotationSize(size) == size > FileRotationSize

\* fi.Size() >= FileRotationSize.
AtRotationSize(size) == size >= FileRotationSize

\* A Persist that does not call instrument.
ForwardedNever(l, cmd) == <<>>

\* Persist's call instrument(l, cmd): the events the backend receives.
Forwarded(l, cmd) == instrument(l, cmd).events

\* Persist(logPath, args) up to the call of instrument: nothing to do on an
\* empty l, otherwise the command line is built and instrument is called; a
\* panic of instrument ends the process.
Persist(args) ==
    /\ ppc = "idle"
    /\ RecordersIdle
    /\ started + npersist < MaxOps
    /\ npersist' = npersist + 1
    /\ pl' = Log
    /\ pargs' = args
    /\ pidx' = 0
    /\ pre' = [file |-> file, sentry |-> sentry]
    /\ IF NothingToDo(Log)
       THEN /\ result' = NilErr
            /\ ppc' = "idle"
            /\ ptrace' = <<>>
            /\ sentry' = sentry
       ELSE /\ result' = NoResult
            /\ ppc' = IF instrument(Log, CommandLine(args)).panics THEN "panic" ELSE "OpenFile"
            /\ ptrace' = <<"instrument">>
            /\ sentry' = sentry \o Forwarded(Log, CommandLine(args))
    /\ UNCHANGED <<file, handles, now>>
    /\ UNCHANGED <<recorderVars, otherVars>>

\* os.OpenFile(logPath, O_APPEND|O_CREATE|O_WRONLY, 0o600).
OpenFile ==
    /\ ppc = "OpenFile"
    /\ Step("OpenFile")
    /\ \/ /\ file' = IF file.exists THEN file ELSE EmptyFile
          /\ handles' = handles + 1
          /\ ppc' = "Stat"
          /\ UNCHANGED result
       \/ /\ result' = Errorf(errMsg, IOError("open"))
          /\ ppc' = "idle"
          /\ UNCHANGED <<file, handles>>
    /\ UNCHANGED <<sentry, pl, pargs, pidx, pre, npersist, now>>
    /\ UNCHANGED <<recorderVars, otherVars>>

\* f.Stat() and the test of the size: a failed Stat skips the rotation.
Stat ==
    /\ ppc = "Stat"
    /\ \/ /\ Step("Stat")
          /\ ppc' = IF AtRotationSize(Size(file)) THEN "Close" ELSE "header"
       \/ /\ Step("Stat error")
          /\ ppc' = "header"
    /\ UNCHANGED <<file, handles, sentry, pl, pargs, pidx, result, pre, npersist, now>>
    /\ UNCHANGED <<recorderVars, otherVars>>

\* The rotation's f.Close(): its error is returned as it is.
RotateClose ==
    /\ ppc = "Close"
    /\ Step("Close")
    /\ handles' = Close(handles)
    /\ \/ /\ ppc' = "Create"
          /\ UNCHANGED result
       \/ /\ result' = IOError("close")
          /\ ppc' = "idle"
    /\ UNCHANGED <<file, sentry, pl, pargs, pidx, pre, npersist, now>>
    /\ UNCHANGED <<recorderVars, otherVars>>

\* The rotation's os.Create(logPath): the file is truncated.
RotateCreate ==
    /\ ppc = "Create"
    /\ Step("Create")
    /\ \/ /\ file' = EmptyFile
          /\ handles' = handles + 1
          /\ ppc' = "header"
          /\ UNCHANGED result
       \/ /\ result' = Errorf(errMsg, IOError("create"))
          /\ ppc' = "idle"
          /\ UNCHANGED <<file, handles>>
    /\ UNCHANGED <<sentry, pl, pargs, pidx, pre, npersist, now>>
    /\ UNCHANGED <<recorderVars, otherVars>>

\* A return of Persist after defer f.Close() was registered.
ReturnDeferred(err) ==
    /\ result' = err
    /\ handles' = DeferredClose(handles)
    /\ ppc' = "idle"

\* The write of the command header.
WriteHeader ==
    /\ ppc = "header"
    /\ Step("Write header")
    /\ LET cmd == CommandLine(pargs)
       IN  \/ /\ file' = Write(file, <<"header", HeaderBytes(cmd), cmd>>)
              /\ ppc' = "records"
              /\ pidx' = 1
              /\ UNCHANGED <<result, handles>>
           \/ /\ \E n \in PartialBytes(HeaderBytes(cmd)) : file' = WriteFailing(file, n)
              /\ ReturnDeferred(IOError("write"))
              /\ UNCHANGED pidx
    /\ UNCHANGED <<sentry, pl, pargs, pre, npersist, now>>
    /\ UNCHANGED <<recorderVars, otherVars>>

\* One round of the range over l: t.Execute(f, entry), whose only fault is
\* that of its writes.
ExecuteRecord ==
    /\ ppc = "records"
    /\ pidx <= Len(pl)
    /\ Step("Execute")
    /\ \/ /\ file' = Write(file, <<"record", RecordBytes(pl[pidx]), pl[pidx]>>)
          /\ pidx' = pidx + 1
          /\ UNCHANGED <<result, handles, ppc>>
       \/ /\ \E n \in PartialBytes(RecordBytes(pl[pidx])) : file' = WriteFailing(file, n)
          /\ ReturnDeferred(IOError("write"))
          /\ UNCHANGED pidx
    /\ UNCHANGED <<sentry, pl, pargs, pre, npersist, now>>
    /\ UNCHANGED <<recorderVars, otherVars>>

\* The write of the separator after the last entry, and the return.
WriteSeparator ==
    /\ ppc = "records"
    /\ pidx > Len(pl)
    /\ Step("Write separator")
    /\ \/ /\ file' = Write(file, <<"separator", SeparatorBytes>>)
          /\ ReturnDeferred(NilErr)
       \/ /\ \E n \in PartialBytes(SeparatorBytes) : file' = WriteFailing(file, n)
          /\ ReturnDeferred(IOError("write"))
    /\ UNCHANGED <<sentry, pl, pargs, pidx, pre, npersist, now>>
    /\ UNCHANGED <<recorderVars, otherVars>>

\* -------------------------------------------------------------- redaction

\* The classes \w and \s of Go's regexp syntax, the class [\w-], and ['"].
WordChars ==
    {"a", "b", "c", "d", "e", "f", "g", "h", "i", "j", "k", "l", "m",
     "n", "o", "p", "q", "r", "s", "t", "u", "v", "w", "x", "y", "z",
     "A", "B", "C", "D", "E", "F", "G", "H", "I", "J", "K", "L", "M",
     "N", "O", "P", "Q", "R", "S", "T", "U", "V", "W", "X", "Y", "Z",
     "0", "1", "2", "3", "4", "5", "6", "7", "8", "9", "_"}
SpaceChars == {" ", "\t", "\n", "\f", "\r"}
TokenChars == WordChars \cup {"-"}
QuoteChars == {"'", "\""}

RECURSIVE ZeroOrMore(_, _, _)
\* x*: how many characters of the class follow from position p on, all of
\* them being taken.
ZeroOrMore(s, p, class) ==
    IF p <= Len(s) /\ s[p] \in class THEN 1 + ZeroOrMore(s, p + 1, class) ELSE 0

\* x?: one character of the class at position p when there is one.
ZeroOrOne(s, p, class) ==
    IF p <= Len(s) /\ s[p] \in class THEN 1 ELSE 0

\* A class without its quantifier: one character.
JustOne(s, p, class) == ZeroOrOne(s, p, class)

\* x+: as x*, and no match when the count is 0.
OneOrMore(s, p, class) == ZeroOrMore(s, p, class)

REDACTED == <<"R", "E", "D", "A", "C", "T", "E", "D">>

\* TokenRegEx = `Token ([\w-]+)` tried at position p: the length of the match,
\* 0 for none.
TokenRegEx(s, p) ==
    LET word == <<"T", "o", "k", "e", "n", " ">>
        value == OneOrMore(s, p + Len(word), TokenChars)
    IN  IF MatchAt(s, word, p) /\ value >= 1 THEN Len(word) + value ELSE 0

\* TokenFlagRegEx = `(-t|--token)(\s*=?\s*['"]?)([\w-]+)(['"]?)` tried at
\* position p: where its third group starts, and the lengths of the third and
\* fourth; len is the length of the match, 0 for none.  The classes of the
\* second and third group share no character, so the longest second group is
\* the only one a match can have.
TokenFlagRegEx(s, p) ==
    LET flag == IF MatchAt(s, <<"-", "t">>, p) THEN 2
                ELSE IF MatchAt(s, <<"-", "-", "t", "o", "k", "e", "n">>, p) THEN 7
                ELSE 0
        a == p + flag
        b == a + ZeroOrMore(s, a, SpaceChars)
        c == b + ZeroOrOne(s, b, {"="})
        d == c + ZeroOrMore(s, c, SpaceChars)
        g3 == d + ZeroOrOne(s, d, QuoteChars)
        n3 == OneOrMore(s, g3, TokenChars)
        n4 == ZeroOrOne(s, g3 + n3, QuoteChars)
    IN  IF flag > 0 /\ n3 >= 1
        THEN [len |-> g3 + n3 + n4 - p, g3 |-> g3, n3 |-> n3, n4 |-> n4]
        ELSE [len |-> 0, g3 |-> 0, n3 |-> 0, n4 |-> 0]

RECURSIVE ReplaceAllToken(_, _)
\* TokenRegEx.ReplaceAllString(s, "Token REDACTED") from position p on: the
\* leftmost matches, none overlapping another.
ReplaceAllToken(s, p) ==
    IF p > Len(s) THEN <<>>
    ELSE IF TokenRegEx(s, p) > 0
    THEN <<"T", "o", "k", "e", "n", " ">> \o REDACTED
             \o ReplaceAllToken(s, p + TokenRegEx(s, p))
    ELSE <<s[p]>> \o ReplaceAllToken(s, p + 1)

RECURSIVE ReplaceAllTokenFlag(_, _)
\* TokenFlagRegEx.ReplaceAllString(s, "${1}${2}REDACTED${4}") from position p
\* on.
ReplaceAllTokenFlag(s, p) ==
    IF p > Len(s) THEN <<>>
    ELSE LET m == TokenFlagRegEx(s, p)
         IN  IF m.len > 0
             THEN SubSeq(s, p, m.g3 - 1) \o REDACTED
                      \o SubSeq(s, m.g3 + m.n3, m.g3 + m.n3 + m.n4 - 1)
                      \o ReplaceAllTokenFlag(s, p + m.len)
             ELSE <<s[p]>> \o ReplaceAllTokenFlag(s, p + 1)

\* A FilterToken without its first replacement.
FilterTokenFlagOnly(inputStr) == ReplaceAllTokenFlag(inputStr, 1)

\* FilterToken: the first replacement, then the second on its result.
FilterToken(inputStr) == ReplaceAllTokenFlag(ReplaceAllToken(inputStr, 1), 1)

\* The strings FilterToken is tried on: up to MaxPieces of these pieces, one
\* after the other.
Pieces ==
    { <<"T", "o", "k", "e", "n">>, <<" ">>, <<"\t">>, <<"a">>, <<"=">>, <<"'">>,
      <<"-", "t">>, <<"-", "-", "t", "o", "k", "e", "n">> }

RECURSIVE StringsOf(_)
StringsOf(n) ==
    IF n = 0 THEN {<<>>}
    ELSE LET shorter == StringsOf(n - 1)
         IN  shorter \cup {s \o piece : s \in shorter, piece \in Pieces}

\* A caller applies FilterToken to a string.
ApplyFilterToken ==
    /\ ~applied
    /\ applied' = TRUE
    /\ ret' = FilterToken(arg)
    /\ UNCHANGED <<recorderVars, persistVars, now, argv, arg, mock>>

\* The entries the recording calls of a run make, and the sequences of up to
\* MaxCalls of them.
Entries ==
    {createLogEntry(in.err, 0, in.frame) : in \in AddInputs}
        \cup {[createLogEntry(in.err, 0, in.frame) EXCEPT !.Context = in.ctx] :
                  in \in AddWithContextInputs}

RECURSIVE EntriesOf(_)
EntriesOf(n) ==
    IF n = 0 THEN {<<>>}
    ELSE LET shorter == EntriesOf(n - 1)
         IN  shorter \cup {Append(l, e) : l \in shorter, e \in Entries}

\* A caller inside the package applies instrument to a sequence of entries.
ApplyInstrument ==
    /\ ~applied
    /\ applied' = TRUE
    /\ ret' = instrument(arg.l, arg.cmd)
    /\ UNCHANGED <<recorderVars, persistVars, now, argv, arg, mock>>

\* ---------------------------------------------------------------- MockLog

\* A MockLog whose Persist reports an error.
MockPersistFailing(args) == IOError("open")

\* What MockLog.Persist returns: nil.
MockPersistReturn(args) == NilErr

\* MockLog.Add(err): an empty body.
MockAdd(in) ==
    /\ Len(mock) < MaxOps
    /\ mock' = Append(mock, <<"Add", NoResult>>)
    /\ UNCHANGED <<recorderVars, persistVars, now, argv, arg, ret, applied>>

\* MockLog.AddWithContext(err, ctx): an empty body.
MockAddWithContext(in) ==
    /\ Len(mock) < MaxOps
    /\ mock' = Append(mock, <<"AddWithContext", NoResult>>)
    /\ UNCHANGED <<recorderVars, persistVars, now, argv, arg, ret, applied>>

\* MockLog.Persist(logPath, args): return nil.
MockPersist(args) ==
    /\ Len(mock) < MaxOps
    /\ mock' = Append(mock, <<"Persist", MockPersistReturn(args)>>)
    /\ UNCHANGED <<recorderVars, persistVars, now, argv, arg, ret, applied>>

\* ------------------------------------------------------------------ clock

\* Time passes.
Tick ==
    /\ now < MaxClock
    /\ now' = now + 1
    /\ UNCHANGED <<recorderVars, persistVars, otherVars>>

\* ---------------------------------------------------------- specification

\* The log files a run may find: none, one a byte short of the rotation
\* size, one of exactly that size.
InitialFiles == {NoFile, OldFile(FileRotationSize - 1), OldFile(FileRotationSize)}

\* The process before the command runs: an empty store, no call under way.
InitProcess ==
    /\ Log = <<>>
    /\ logMutex = Free
    /\ pc = [w \in Workers |-> "idle"]
    /\ call = [w \in Workers |-> NoCall]
    /\ le = [w \in Workers |-> NoEntry]
    /\ sl = [w \in Workers |-> <<>>]
    /\ now = 0
    /\ returned = <<>>
    /\ started = 0
    /\ handles = 0
    /\ sentry = <<>>
    /\ ppc = "idle"
    /\ pl = <<>>
    /\ pargs = <<>>
    /\ pidx = 0
    /\ result = NoResult
    /\ ptrace = <<>>
    /\ pre = [file |-> NoFile, sentry |-> <<>>]
    /\ npersist = 0

Init ==
    /\ InitProcess
    /\ file \in InitialFiles
    /\ argv \in ArgVectors
    /\ arg = <<>>
    /\ ret = <<>>
    /\ applied = FALSE
    /\ mock = <<>>

\* The steps of worker w.
Recorder(w) ==
    \/ \E in \in AddInputs : Add(w, in)
    \/ \E in \in AddWithContextInputs : AddWithContext(w, in)
    \/ Lock(w)
    \/ AddCreate(w)
    \/ AppendLoad(w)
    \/ AppendStore(w)
    \/ Unlock(w)

\* The steps of the host's Persist(LogPath, args).
Persisting ==
    \/ Persist(argv)
    \/ OpenFile
    \/ Stat
    \/ RotateClose
    \/ RotateCreate
    \/ WriteHeader
    \/ ExecuteRecord
    \/ WriteSeparator

\* A run of one command: its goroutine records errors, and the host persists
\* them.  The clock is stubbed, as Now allows.
Next == Recorder(Main) \/ Persisting

Spec == Init /\ [][Next]_vars

\* Workers recording concurrently while time passes.
NextRecording == (\E w \in Workers : Recorder(w)) \/ Tick

RecordingSpec == Init /\ [][NextRecording]_vars

\* The steps of a recording call under way: the scheduler gives every
\* goroutine that can run its turn, and a goroutine waiting in Lock can run
\* once the mutex is free.
Running(w) ==
    Lock(w) \/ AddCreate(w) \/ AppendLoad(w) \/ AppendStore(w) \/ Unlock(w)

FairRecordingSpec == RecordingSpec /\ \A w \in Workers : WF_vars(Running(w))

\* FilterToken on its own, applied to one of the strings.
InitFilterToken ==
    /\ InitProcess
    /\ file = NoFile
    /\ argv = <<>>
    /\ arg \in StringsOf(MaxPieces)
    /\ ret = <<>>
    /\ applied = FALSE
    /\ mock = <<>>

NextFilterToken == ApplyFilterToken

FilterTokenSpec == InitFilterToken /\ [][NextFilterToken]_vars

\* instrument on its own, applied to a sequence of entries, the empty one
\* among them.
InitInstrument ==
    /\ InitProcess
    /\ file = NoFile
    /\ argv \in ArgVectors
    /\ arg \in {[l |-> l, cmd |-> CommandLine(argv)] : l \in EntriesOf(MaxCalls)}
    /\ ret = <<>>
    /\ applied = FALSE
    /\ mock = <<>>

NextInstrument == ApplyInstrument

InstrumentSpec == InitInstrument /\ [][NextInstrument]_vars

\* A run whose log is a MockLog.
NextMock ==
    \/ \E in \in AddInputs : MockAdd(in)
    \/ \E in \in AddWithContextInputs : MockAddWithContext(in)
    \/ MockPersist(argv)

MockSpec == Init /\ [][NextMock]_vars


\* ----------------------------------------------------------------- claims

\* How often v occurs in seq.
Count(seq, v) == Cardinality({i \in 1..Len(seq) : seq[i] = v})

\* s is t's beginning.
IsPrefix(s, t) == Len(s) <= Len(t) /\ SubSeq(t, 1, Len(s)) = s

\* The last Persist call has returned.
Returned == ppc = "idle" /\ npersist > 0

\* The events the backend received since the last Persist call was made.
CallEvents == SubSeq(sentry, Len(pre.sentry) + 1, Len(sentry))

\* The entry of l an event was made from.
Src(ev) == ev[Len(ev)]

\* How many error breadcrumbs of the last call were made from entry i.
ErrorBreadcrumbsOf(i) ==
    Cardinality({k \in 1..Len(CallEvents) :
                    /\ CallEvents[k][1] = "breadcrumb"
                    /\ CallEvents[k][3] = "error"
                    /\ Src(CallEvents[k]) = i})

\* The error and context of each entry of the store, and of each recording
\* call that returned.
Recorded == [i \in 1..Len(Log) |-> <<Log[i].Err, Log[i].Context>>]
Requested == [i \in 1..Len(returned) |-> <<returned[i][2], returned[i][3]>>]

\* C1: whenever every recording call made so far has returned, however the
\* workers' calls interleaved, the store holds as many entries as calls were
\* made, and each call's error and context as often as calls passed them.
C1_NoEntryLost ==
    RecordersIdle =>
        /\ Len(returned) = started
        /\ Len(Log) = started
        /\ \A i \in 1..Len(returned) :
               Count(Recorded, Requested[i]) = Count(Requested, Requested[i])

\* Two calls overlapped and both returned: the entry built first was
\* appended last.
C1_Witness ==
    /\ RecordersIdle
    /\ Len(Log) = 2
    /\ Log[1].Time > Log[2].Time

\* C2: every step leaves the store's entries in place and at most appends to
\* them, and a step of Persist, failing or not, leaves the store as it is.
C2_AppendOnly ==
    [][IsPrefix(Log, Log') /\ (Persisting => Log' = Log)]_vars

\* A Persist call failed on a non-empty store, and an entry was recorded
\* after it.
C2_Witness ==
    /\ Returned
    /\ result # NilErr
    /\ pl # <<>>
    /\ Len(Log) > Len(pl)
    /\ RecordersIdle

\* An entry opted out of remote forwarding: no context, no AllowInstrumentation
\* key, or the key set to false.
OptedOut(entry) ==
    \/ entry.Context.nil
    \/ ~HasKey(entry.Context, AllowInstrumentation)
    \/ entry.Context.m[AllowInstrumentation] = BoolV(FALSE)

\* C3: no event the backend received, breadcrumb or captured exception, was
\* made from an entry that is opted out.
C3_OptedOutNeverSent ==
    \A k \in 1..Len(sentry) :
        Src(sentry[k]) > 0 => ~OptedOut(Log[Src(sentry[k])])

\* C4: of the entries given to instrument, one with AllowInstrumentation set
\* to false makes no error breadcrumb, one with it set to true makes exactly
\* one, and one with no context or without the key makes none.
C4_BreadcrumbPerAllowedEntry ==
    \A i \in 1..Len(pl) :
        LET ctx == pl[i].Context
        IN  /\ (ctx.nil \/ ~HasKey(ctx, AllowInstrumentation)) => ErrorBreadcrumbsOf(i) = 0
            /\ (HasKey(ctx, AllowInstrumentation)
                   /\ ctx.m[AllowInstrumentation] = BoolV(FALSE)) => ErrorBreadcrumbsOf(i) = 0
            /\ (HasKey(ctx, AllowInstrumentation)
                   /\ ctx.m[AllowInstrumentation] = BoolV(TRUE)) => ErrorBreadcrumbsOf(i) = 1

\* instrument was given an entry that allows and one that denies.
C4_Witness ==
    /\ CallEvents # <<>>
    /\ \E i, j \in 1..Len(pl) :
           /\ HasKey(pl[i].Context, AllowInstrumentation)
           /\ pl[i].Context.m[AllowInstrumentation] = BoolV(TRUE)
           /\ HasKey(pl[j].Context, AllowInstrumentation)
           /\ pl[j].Context.m[AllowInstrumentation] = BoolV(FALSE)

\* C5: an entry whose AllowInstrumentation is not a boolean makes no
\* breadcrumb.
C5_NonBooleanSkipped ==
    \A i \in 1..Len(pl) :
        (/\ HasKey(pl[i].Context, AllowInstrumentation)
         /\ pl[i].Context.m[AllowInstrumentation][1] # "bool") => ErrorBreadcrumbsOf(i) = 0


\* C6: a Persist call on an empty store returns at once, with nil, and does
\* nothing: no step on the file (no open, hence no creation, truncation or
\* write), the file as it was, missing if it was missing, no handle held, and
\* no event sent.
C6_EmptyStoreNoEffect ==
    (npersist > 0 /\ pl = <<>>) =>
        /\ ppc = "idle"
        /\ result = NilErr
        /\ ptrace = <<>>
        /\ file = pre.file
        /\ handles = 0
        /\ sentry = pre.sentry

\* Persist returned from a call on an empty store, and no file exists.
C6_Witness ==
    /\ Returned
    /\ pl = <<>>
    /\ ~file.exists

\* What a successful Persist writes for l and cmd: the header, a record per
\* entry, the separator.
NewContent(l, cmd) ==
    <<<<"header", HeaderBytes(cmd), cmd>>>>
        \o [i \in 1..Len(l) |-> <<"record", RecordBytes(l[i]), l[i]>>]
        \o <<<<"separator", SeparatorBytes>>>>

\* The last Persist call was made on a non-empty store and returned nil.
Succeeded == Returned /\ pl # <<>> /\ result = NilErr

\* The file holds only what the last call wrote.
OnlyNewContent ==
    file = [exists |-> TRUE, old |-> 0, written |-> NewContent(pl, CommandLine(pargs))]

\* The file holds what it held when the call was made, then what the call
\* wrote.
OldThenNewContent ==
    file = [exists |-> TRUE, old |-> pre.file.old,
            written |-> pre.file.written \o NewContent(pl, CommandLine(pargs))]

\* C7 as claimed: after a successful Persist the file holds only the new
\* content if its size was at or above FileRotationSize, and the old content
\* followed by the new otherwise.
C7_RotationBySize ==
    Succeeded =>
        IF Size(pre.file) >= FileRotationSize THEN OnlyNewContent ELSE OldThenNewContent

\* C7 amended: the file holds only the new content if its size was at or
\* above FileRotationSize and Stat answered; it holds the old content
\* followed by the new if the size was below, the file did not exist, or Stat
\* failed.
C7_RotationBySizeWhenStatAnswers ==
    Succeeded =>
        IF Size(pre.file) >= FileRotationSize /\ Count(ptrace, "Stat") = 1
        THEN OnlyNewContent
        ELSE OldThenNewContent

\* A successful Persist truncated a file that had reached the rotation size.
C7_Witness ==
    /\ Succeeded
    /\ Size(pre.file) >= FileRotationSize
    /\ Count(ptrace, "Stat") = 1
    /\ Size(file) < FileRotationSize

\* C8: a Persist call on a non-empty store calls instrument once, as its first
\* step, with the whole store and "fastly " followed by the arguments: the
\* events are with the backend while the file is still unopened and as it
\* was; and no step of a recording call sends an event.
C8_ForwardedOnceBeforeWriting ==
    /\ [](pl # <<>> =>
            /\ Count(ptrace, "instrument") = 1
            /\ ptrace[1] = "instrument"
            /\ sentry = pre.sentry \o instrument(pl, CommandLine(pargs)).events
            /\ (ppc # "idle" => pl = Log)
            /\ (ppc = "OpenFile" => file = pre.file /\ handles = 0))
    /\ [][(\E w \in Workers : Recorder(w)) => sentry' = sentry]_vars

\* instrument has been called and Persist is about to open the file.
C8_Witness ==
    /\ ppc = "OpenFile"
    /\ Len(pl) = 2
    /\ Len(CallEvents) >= 2

\* C9: when Persist has returned, by whichever path, no handle on the file
\* is open.
C9_NoHandleLeftOpen == ppc = "idle" => handles = 0

\* Persist returned a write error: it had opened the file.
C9_Witness ==
    /\ Returned
    /\ result = IOError("write")
    /\ handles = 0

\* The last Persist call returned an error.
Failed == Returned /\ result # NilErr

\* The I/O error of the step Persist failed in.
FaultOf(step) ==
    IF step = "OpenFile" THEN IOError("open")
    ELSE IF step = "Close" THEN IOError("close")
    ELSE IF step = "Create" THEN IOError("create")
    ELSE IOError("write")

\* err carries the prefix and wraps cause.
Wraps(err, cause) == err[2][1] = errMsg /\ err[3] = cause

\* C10 as claimed: every error Persist returns carries the prefix and wraps
\* the I/O error of the step that failed.
C10_EveryErrorWrapped ==
    Failed => Wraps(result, FaultOf(ptrace[Len(ptrace)]))

\* C10 amended: every fault ends the call with an error: the error of
\* os.OpenFile and of the rotation's os.Create wrapped with the prefix, the
\* error of the rotation's Close, of the header's or separator's Write and of
\* the template's Execute as it is, without the prefix.
C10_OpenAndCreateErrorsWrapped ==
    Failed =>
        LET step == ptrace[Len(ptrace)]
        IN  IF step \in {"OpenFile", "Create"}
            THEN Wraps(result, FaultOf(step))
            ELSE result = FaultOf(step)

\* Persist returned the wrapped error of a failed os.Create.
C10_Witness ==
    /\ Failed
    /\ ptrace[Len(ptrace)] = "Create"
    /\ Wraps(result, IOError("create"))

\* The call that stored entry i of the store: one that returned, or the one
\* about to unlock.
CallOf(i) ==
    IF i <= Len(returned)
    THEN [op |-> returned[i][1], err |-> returned[i][2]]
    ELSE IF \E w \in Workers : pc[w] = "Unlock"
    THEN LET w == CHOOSE x \in Workers : pc[x] = "Unlock"
         IN  [op |-> call[w].op, err |-> call[w].err]
    ELSE [op |-> "none", err |-> NilErr]

\* C11 as stated: after any calls of Add and AddWithContext, with any
\* arguments, every entry in the store has a non-nil err.
C11_ErrNeverNil ==
    \A i \in 1..Len(Log) : Log[i].Err # NilErr

\* C11: after any calls of Add and AddWithContext, every entry in the store
\* holds the err its call was given, nil when the call passed nil, so that
\* the entries' errs are non-nil exactly when the calls' were.
C11_ErrAsPassed ==
    /\ \A i \in 1..Len(Log) : Log[i].Err = CallOf(i).err
    /\ (\A i \in 1..Len(Log) : CallOf(i).err # NilErr) => C11_ErrNeverNil

\* Add(nil) returned, and so did a call that passed an error.
C11_Witness ==
    /\ RecordersIdle
    /\ \E i \in 1..Len(Log) : Log[i].Err = NilErr
    /\ \E i \in 1..Len(Log) : Log[i].Err = E1

\* C12: for every string s FilterToken is applied to, applying it to the
\* result again gives the result: FilterToken(FilterToken(s)) = FilterToken(s).
C12_Idempotent ==
    applied => FilterToken(ret) = ret

\* A string holding both a "Token a" and a flag with its value was filtered,
\* and the result differs from it.
C12_Witness ==
    /\ applied
    /\ ret # arg
    /\ \E p \in 1..Len(arg) : TokenRegEx(arg, p) > 0
    /\ \E p \in 1..Len(ret) : TokenFlagRegEx(ret, p).len > 0

\* The value that follows the word "Token" at position p of s after gap
\* characters: <<>> when the word is not there or no value follows.
Token == <<"T", "o", "k", "e", "n">>
ValueAfterToken(s, p, gap) ==
    IF MatchAt(s, Token, p)
    THEN SubSeq(s, p + Len(Token) + gap,
                p + Len(Token) + gap + ZeroOrMore(s, p + Len(Token) + gap, TokenChars) - 1)
    ELSE <<>>

\* C13 as stated: in what FilterToken returns, the word "Token" followed by
\* whitespace, one or more characters of any kind, is never followed by a
\* token-shaped value other than REDACTED.
C13_RedactedAfterAnyWhitespace ==
    applied =>
        \A p \in 1..Len(ret) :
            LET gap == ZeroOrMore(ret, p + Len(Token), SpaceChars)
            IN  gap >= 1 => ValueAfterToken(ret, p, gap) \in {<<>>, REDACTED}

\* C13: in what FilterToken returns, the word "Token" followed by exactly one
\* space character is never followed by a token-shaped value other than
\* REDACTED: every such occurrence in the input was redacted.
C13_RedactedAfterOneSpace ==
    applied =>
        \A p \in 1..Len(ret) :
            (p + Len(Token) <= Len(ret) /\ ret[p + Len(Token)] = " ")
                => ValueAfterToken(ret, p, 1) \in {<<>>, REDACTED}

\* A string with "Token a" in it was filtered, and the result has
\* "Token REDACTED" in it.
C13_Witness ==
    /\ applied
    /\ \E p \in 1..Len(arg) : ValueAfterToken(arg, p, 1) = <<"a">> /\ arg[p + Len(Token)] = " "
    /\ \E p \in 1..Len(ret) : ValueAfterToken(ret, p, 1) = REDACTED /\ ret[p + Len(Token)] = " "

\* The breadcrumbs of the command line the backend received.
InputBreadcrumbs ==
    {k \in 1..Len(sentry) : sentry[k][1] = "breadcrumb" /\ sentry[k][3] = "info"}

\* C14: the command-line breadcrumb Persist hands to the telemetry backend
\* carries FilterToken of the command line built from args, and the value of a
\* token flag among args is not in it.
C14_CommandRedacted ==
    \A k \in InputBreadcrumbs :
        /\ sentry[k][4] = FilterToken(CommandLine(argv))
        /\ \A i \in 1..(Len(argv) - 1) :
               argv[i] = <<"-", "-", "t", "o", "k", "e", "n">>
                   => Index(sentry[k][4], argv[i + 1]) = -1

\* C15: whatever calls are made on a MockLog, the store stays empty, the file
\* stays as it was found (none is created, none changed, no handle opened),
\* the backend receives no event, and every Persist call returns nil.
C15_MockLogNoEffect ==
    /\ [](/\ Log = <<>>
          /\ sentry = <<>>
          /\ handles = 0
          /\ file \in InitialFiles
          /\ \A k \in 1..Len(mock) : mock[k][1] = "Persist" => mock[k][2] = NilErr)
    /\ [][file' = file /\ Log' = Log /\ sentry' = sentry]_vars

\* Each of the three operations was called on a MockLog, Persist last, with a
\* token among the arguments and a file that had reached the rotation size.
C15_Witness ==
    /\ Len(mock) = 3
    /\ mock[1][1] = "Add"
    /\ mock[2][1] = "AddWithContext"
    /\ mock[3][1] = "Persist"
    /\ file = OldFile(FileRotationSize)
    /\ Len(argv) = 2

\* The entry is eligible for forwarding: AllowInstrumentation is the boolean
\* true.
Eligible(entry) ==
    /\ HasKey(entry.Context, AllowInstrumentation)
    /\ entry.Context.m[AllowInstrumentation] = BoolV(TRUE)

C17_EmptySequenceNoFault ==
    (applied /\ arg.l = <<>>) =>
        /\ ~ret.panics
        /\ \A k \in 1..Len(ret.events) : ret.events[k][1] # "exception"

\* What the last Persist call wrote to the file: all the file holds after a
\* rotation, and what follows the content found otherwise.
WrittenByCall ==
    IF Count(ptrace, "Create") = 1 THEN file.written
    ELSE SubSeq(file.written, Len(pre.file.written) + 1, Len(file.written))

\* C18: what a successful Persist call wrote is the command header, then one
\* record per entry of the store, in the store's order, none left out,
\* whether or not the entry is eligible for forwarding, and then one
\* separator, and nothing else.
C18_HeaderRecordsSeparator ==
    Succeeded =>
        LET w == WrittenByCall
            n == Len(pl)
        IN  /\ Len(w) = n + 2
            /\ w[1][1] = "header"
            /\ w[1][3] = CommandLine(pargs)
            /\ \A i \in 1..n : w[i + 1][1] = "record" /\ w[i + 1][3] = pl[i]
            /\ w[n + 2][1] = "separator"
            /\ IsPrefix(pl, Log)

\* A successful Persist call wrote two different entries, the first of them
\* opted out of forwarding.
C18_Witness ==
    /\ Succeeded
    /\ Len(pl) = 2
    /\ pl[1] # pl[2]
    /\ OptedOut(pl[1])
    /\ Len(WrittenByCall) = 4

\* The workers between Lock and Unlock, and those of them appending.
InLockedSection == {w \in Workers : pc[w] \in {"create", "load", "store", "Unlock"}}
Appending == {w \in Workers : pc[w] \in {"load", "store"}}

\* The store changes only by the write of the worker that holds the mutex.
MutatedUnderLock ==
    [][Log' # Log => \E w \in Workers :
                         logMutex = w /\ pc[w] = "store" /\ pc'[w] = "Unlock"]_vars

\* Every recording call returns.
EveryCallReturns ==
    \A w \in Workers : (pc[w] # "idle") ~> (pc[w] = "idle")

\* C19 as stated: the store is changed only by the holder of the mutex, at
\* most one worker is appending, a worker holds the mutex only from its append
\* on and never while it builds its entry, and every call returns.
C19_LockedOnlyForAppend ==
    /\ MutatedUnderLock
    /\ [](/\ Cardinality(Appending) <= 1
          /\ \A w \in Workers : logMutex = w => pc[w] \in {"load", "store", "Unlock"})
    /\ EveryCallReturns

\* C19: the store is changed only by the holder of the mutex, at most one
\* worker is between Lock and Unlock, a worker holds the mutex exactly from
\* its Lock to its Unlock, which in Add includes the building of the entry
\* and in AddWithContext only the append, and every call returns.
C19_LockedFromLockToUnlock ==
    /\ MutatedUnderLock
    /\ [](/\ Cardinality(InLockedSection) <= 1
          /\ \A w \in Workers : logMutex = w <=> w \in InLockedSection)
    /\ EveryCallReturns

\* Add builds its entry holding the mutex while the other worker, its entry
\* built, waits in Lock.
C19_Witness ==
    /\ pc[Main] = "create"
    /\ logMutex = Main
    /\ pc["g1"] = "Lock"
    /\ call["g1"].op = "AddWithContext"

\* C20 as stated: however the calls interleave, the store's order agrees with
\* the entries' times: an entry is no later than those stored after it.
C20_StoreOrderIsTimeOrder ==
    \A i, j \in 1..Len(Log) : i < j => Log[i].Time <= Log[j].Time

\* C20: an entry stored by Add is no earlier than the entries stored before
\* it, its time being read under the mutex; an entry stored by AddWithContext
\* may be earlier than those, its time being read before Lock.
C20_AddNoEarlierThanStored ==
    \A i, j \in 1..Len(Log) :
        (i < j /\ CallOf(j).op = "Add") => Log[i].Time <= Log[j].Time

\* Add asked for the mutex before the clock ticked and before the other
\* worker's AddWithContext stored its entry, and stored its own, built after
\* both, behind it.
C20_Witness ==
    /\ RecordersIdle
    /\ Len(Log) = 2
    /\ CallOf(1).op = "AddWithContext"
    /\ CallOf(2).op = "Add"
    /\ Log[1].Time < Log[2].Time

=============================================================================
